---- MODULE Spec2Model ----
(***************************************************************************)
(* Model of the bounding-box watcher of meshroom/nodes/aliceVision/        *)
(* Meshing.py: the context manager boundingBoxMonitor (the guard, run by   *)
(* the main thread around the node's processChunk) and BoundingBoxThread   *)
(* (the watcher thread), together with the file boundingBox.txt written by *)
(* the external meshing process and the node's parameter tree.             *)
(***************************************************************************)
EXTENDS Integers, Sequences, FiniteSets, TLC

\* ------------------------------------------------------------------ bounds
\* The clock runs from 1 to MaxTime; a file that predates the model has mtime 0.
MaxTime == 2
\* Number of guarded executions (processChunk calls) of the same node.
MaxRuns == 2
\* Number of checks a watcher makes before it only waits for the stop request.
MaxChecks == 2

\* ------------------------------------------------------- program constants
\* translation x,y,z ; rotation x,y,z ; scale x,y,z
NFields == 9
\* startTime of a checkOnce watcher
NoBaseline == -1

\* ------------------------------------------------------- the file's content
\* A line of the text file: a float literal (with its value), a blank line,
\* or text that is no float literal.
Num(v) == [kind |-> "num", val |-> v]
Blank == [kind |-> "blank", val |-> 0]
Bad == [kind |-> "bad", val |-> 0]

\* A complete artifact.
ArtA == [k \in 1..NFields |-> Num(10 + k)]
\* Another complete artifact, ending with an empty line.
ArtB == [k \in 1..NFields |-> Num(20 + k)] \o <<Blank>>
\* ArtA while the producer is still writing it: its last line is missing.
ArtPartial == SubSeq(ArtA, 1, NFields - 1)
\* ArtA with one line too many.
ArtLong == ArtA \o <<Num(99)>>
\* ArtA with a line that is no number.
ArtNonNum == [ArtA EXCEPT ![3] = Bad]

Contents == {ArtA, ArtB, ArtPartial, ArtLong, ArtNonNum}

NoFile == [exists |-> FALSE, mtime |-> 0, lines |-> <<>>]

\* A complete file left by an earlier computation, before the clock started.
OldFile == [exists |-> TRUE, mtime |-> 0, lines |-> ArtA]

\* os.path.exists and os.path.getmtime of a file.
Stat(f) == [exists |-> f.exists, mtime |-> f.mtime]

\* str.strip(): leading and trailing whitespace, blank lines included, goes.
RECURSIVE StripLeft(_)
StripLeft(ls) ==
    IF ls # <<>> /\ Head(ls).kind = "blank" THEN StripLeft(Tail(ls)) ELSE ls

RECURSIVE StripRight(_)
StripRight(ls) ==
    IF ls # <<>> /\ ls[Len(ls)].kind = "blank"
    THEN StripRight(SubSeq(ls, 1, Len(ls) - 1))
    ELSE ls

\* stream.read().strip().splitlines()
Tokens(ls) == StripRight(StripLeft(ls))

\* float(token) raises ValueError on anything that is no float literal.
FloatRaises(tok) == tok.kind # "num"

Float(tok) == tok.val

\* list(map(float, ...)) raises as soon as one token does.
ParseRaises(ls) == \E k \in 1..Len(Tokens(ls)) : FloatRaises(Tokens(ls)[k])

ParseData(ls) == [k \in 1..Len(Tokens(ls)) |-> Float(Tokens(ls)[k])]

\* ---------------------------------------------------------------- state
VARIABLES
    now,                \* the clock (time.time(), and the file system's) as last read
    file,               \* boundingBox.txt: exists, mtime, lines
    published,          \* the external process of this run wrote a complete file
    boundingBox,        \* node.boundingBox: the nine leaves, in iteration order
    automaticBBoxValid, \* node.automaticBBoxValid
    runs,               \* guarded executions entered so far
    g_pc,               \* the guard's (main thread's) position
    useBoundingBox,     \* node.useBoundingBox.value as read by the guard
    outcome,            \* how the wrapped operation ended
    result,             \* what the guard's caller gets
    w_pc,               \* the watcher's position ("none": bboxThread is None)
    checkOnce,          \* BoundingBoxThread.checkOnce
    stopFlag,           \* BoundingBoxThread._stopFlag
    startTime,          \* BoundingBoxThread.startTime (-2: not yet set)
    final,              \* the watcher is in the last update (line 592)
    data,               \* updateBoundingBox's local list
    i,                  \* updateBoundingBox's local index
    calls,              \* history: the guard's calls on the watcher
    checks,             \* history: updateBoundingBox calls of this watcher
    successes,          \* history: updateBoundingBox calls that returned True
    passed,             \* history: the stat of the file in the last check that went on to read it
    skipped,            \* history: a check of this watcher saw the file and turned it down
    entryTree,          \* history: the tree when the guard was entered
    checkTree,          \* history: the tree when the last check began
    liveSeen,           \* history: what parentProc.is_running() answered
    stopAt,             \* history: where the watcher was when the guard called stopRequest()
    postStop,           \* history: checks of this watcher begun with the stop flag set
    stopAgain           \* history: stopRequest() was called a second time in this teardown

envVars == <<now, file, published>>
treeVars == <<boundingBox, automaticBBoxValid>>
guardVars == <<runs, g_pc, useBoundingBox, outcome, result>>
threadVars == <<w_pc, checkOnce, stopFlag, startTime, final, data, i>>
histVars == <<calls, checks, successes, passed, skipped, entryTree, checkTree, liveSeen,
              stopAt, postStop, stopAgain>>
vars == <<envVars, treeVars, guardVars, threadVars, histVars>>

Tree == [bb |-> boundingBox, valid |-> automaticBBoxValid]

Terminated == {"exited", "died"}

Init ==
    /\ now = 1
    /\ file \in {NoFile, OldFile}
    /\ published = FALSE
    /\ boundingBox = [k \in 1..NFields |-> 0]
    /\ automaticBBoxValid = FALSE
    /\ runs = 0
    /\ g_pc = "idle"
    /\ useBoundingBox = FALSE
    /\ outcome = "none"
    /\ result = "none"
    /\ w_pc = "none"
    /\ checkOnce = FALSE
    /\ stopFlag = FALSE
    /\ startTime = -2
    /\ final = FALSE
    /\ data = <<>>
    /\ i = 0
    /\ calls = <<>>
    /\ checks = 0
    /\ successes = 0
    /\ passed = Stat(NoFile)
    /\ skipped = FALSE
    /\ entryTree = [bb |-> [k \in 1..NFields |-> 0], valid |-> FALSE]
    /\ checkTree = [bb |-> [k \in 1..NFields |-> 0], valid |-> FALSE]
    /\ liveSeen = "none"
    /\ stopAt = "none"
    /\ postStop = 0
    /\ stopAgain = FALSE

\* ------------------------------------------------- the guard (main thread)
\* boundingBoxMonitor, line 562: a watcher is made unless the node's bounding
\* box is given by hand.
\* (Faulty variant: the test without its `not`.)
WatcherMutInverted(ub) == ub
NeedsWatcher(ub) == ~ub

\* The finally clause (line 566) runs however the wrapped operation ended.
\* (Faulty variant: teardown written after the yield, without try/finally.)
FinallyMutOnlyOnReturn(o) == o = "ok"
Finally(o) == TRUE

\* What leaves the with statement: the generator has no except clause and its
\* finally clause neither returns nor raises, so contextmanager hands the
\* wrapped operation's outcome on, whatever became of the watcher.
\* (Faulty variant: a watcher ended by an exception fails the guard.)
GuardResultMutWatcher(o, w) == IF w = "died" THEN "fail" ELSE o
GuardResult(o, w) == o

\* __init__, lines 573-579, sets the thread's own fields and leaves
\* node.automaticBBoxValid as it finds it.
\* (Faulty variant: a new watcher clears the flag.)
FlagAtEntryMutReset(v) == FALSE
FlagAtEntry(v) == v

\* processChunk enters boundingBoxMonitor(chunk.node): lines 560-563.
Enter(ub, co) ==
    /\ g_pc \in {"idle", "done"}
    /\ runs < MaxRuns
    /\ runs' = runs + 1
    /\ useBoundingBox' = ub
    /\ outcome' = "none"
    /\ result' = "none"
    /\ published' = FALSE
    /\ IF NeedsWatcher(ub)
       THEN /\ w_pc' = "created"
            /\ checkOnce' = co
            /\ g_pc' = "start"
       ELSE /\ w_pc' = "none"
            /\ checkOnce' = FALSE
            /\ g_pc' = "body"
    /\ stopFlag' = FALSE
    /\ startTime' = -2
    /\ final' = FALSE
    /\ data' = <<>>
    /\ i' = 0
    /\ calls' = <<>>
    /\ checks' = 0
    /\ successes' = 0
    /\ passed' = Stat(NoFile)
    /\ skipped' = FALSE
    /\ liveSeen' = "none"
    /\ stopAt' = "none"
    /\ postStop' = 0
    /\ stopAgain' = FALSE
    /\ entryTree' = Tree
    /\ checkTree' = Tree
    /\ automaticBBoxValid' = FlagAtEntry(automaticBBoxValid)
    /\ UNCHANGED <<now, file, boundingBox>>

\* Line 564 comes before the yield of line 565: the thread is started when
\* the wrapped operation begins.
\* (Faulty variant: the thread is made and handed over, never started.)
StartCalledMutMissing == FALSE
StartCalled == TRUE

\* bboxThread.start(), line 564, then the yield of line 565.
Start ==
    /\ g_pc = "start"
    /\ w_pc' = IF StartCalled THEN "started" ELSE w_pc
    /\ calls' = IF StartCalled THEN Append(calls, "start") ELSE calls
    /\ g_pc' = "body"
    /\ UNCHANGED <<envVars, treeVars, runs, useBoundingBox, outcome, result,
                   checkOnce, stopFlag, startTime, final, data, i,
                   checks, successes, passed, skipped, entryTree, checkTree, liveSeen,
                   stopAt, postStop, stopAgain>>

\* The wrapped operation (super().processChunk) returns, raises or is
\* interrupted.
BodyEnd(o) ==
    /\ g_pc = "body"
    /\ outcome' = o
    /\ g_pc' = "finally"
    /\ UNCHANGED <<envVars, treeVars, runs, useBoundingBox, result, threadVars, histVars>>

\* stopRequest, line 621: threading.Event.set() makes the flag true whatever
\* it was.
\* (Faulty variant: the request flips the flag.)
StopSetMutToggle(flag) == ~flag
StopSet(flag) == TRUE

\* Where run() is when stopRequest() lands: a check of the loop is still to
\* begin, a check is reading or assigning, the loop is in its wait, or run()
\* has ended.
StopPoint(pc) ==
    CASE pc \in {"created", "started", "check"} -> "early"
      [] pc \in {"read", "write", "setflag"} -> "checking"
      [] pc = "wait" -> "wait"
      [] OTHER -> "ended"

\* Lines 566-568: bboxThread.stopRequest(), which is _stopFlag.set().
StopRequest ==
    /\ g_pc = "finally"
    /\ w_pc # "none" /\ Finally(outcome)
    /\ stopFlag' = StopSet(stopFlag)
    /\ stopAt' = StopPoint(w_pc)
    /\ calls' = Append(calls, "stopRequest")
    /\ g_pc' = "join"
    /\ UNCHANGED <<envVars, treeVars, runs, useBoundingBox, outcome, result,
                   w_pc, checkOnce, startTime, final, data, i,
                   checks, successes, passed, skipped, entryTree, checkTree, liveSeen,
                   postStop, stopAgain>>

\* stopRequest() called once more on the thread object the guard yielded
\* (line 565), while the guard is in join() and the first request can have
\* been seen: the watcher is in its wait, past it, or done with run().
StopRequestAgain ==
    /\ g_pc = "join"
    /\ ~stopAgain
    /\ (w_pc \in Terminated \cup {"wait", "live"} \/ final)
    /\ stopFlag' = StopSet(stopFlag)
    /\ stopAgain' = TRUE
    /\ UNCHANGED <<envVars, treeVars, guardVars, w_pc, checkOnce, startTime, final, data, i,
                   calls, checks, successes, passed, skipped, entryTree, checkTree, liveSeen,
                   stopAt, postStop>>

\* Line 569: join() has no timeout, and returns only when run() has ended.
\* (Faulty variant: a join with a timeout, which can return with run() going.)
JoinReturnsMutTimeout(w) == TRUE
JoinReturns(w) == w \in Terminated

\* Line 569: bboxThread.join() returns once run() has ended, by a return or
\* by an exception; the guard then drops the thread object, and with it the
\* record of a second stopRequest().
Join ==
    /\ g_pc = "join"
    /\ JoinReturns(w_pc)
    /\ calls' = Append(calls, "join")
    /\ g_pc' = "done"
    /\ result' = GuardResult(outcome, w_pc)
    /\ stopAgain' = FALSE
    /\ UNCHANGED <<envVars, treeVars, runs, useBoundingBox, outcome, threadVars,
                   checks, successes, passed, skipped, entryTree, checkTree, liveSeen,
                   stopAt, postStop>>

\* Line 567 with bboxThread None: nothing to tear down.
NoTeardown ==
    /\ g_pc = "finally"
    /\ ~(w_pc # "none" /\ Finally(outcome))
    /\ g_pc' = "done"
    /\ result' = GuardResult(outcome, w_pc)
    /\ UNCHANGED <<envVars, treeVars, runs, useBoundingBox, outcome, threadVars, histVars>>

\* ------------------------------------------------ the watcher (run, 581-595)
\* Line 582: the baseline is taken when run() begins.
\* (Faulty variant: the baseline taken in checkOnce mode too.)
StartTimeMutAlwaysNow(co, t) == t
StartTimeOf(co, t) == IF co THEN NoBaseline ELSE t

\* Line 605: the file is not there, or is older than the baseline.
\* (Faulty variant: the age of the file is not looked at.)
NotReadyMutNoAge(f, st) == ~f.exists
NotReady(f, st) == ~f.exists \/ f.mtime < st

\* Line 586: leave the loop after a successful update, or after the one check.
\* (Faulty variant: the loop goes on after a successful update.)
LoopReturnsMutNever(updated, co) == co
LoopReturns(updated, co) == updated \/ co

\* Line 588: _stopFlag.wait(interval) is true when the flag is set.
\* (Faulty variant: time.sleep(interval) in place of the wait on the flag.)
WaitSeesStopMutSleep(flag) == FALSE
WaitSeesStop(flag) == flag

\* Where run() goes once updateBoundingBox has returned `updated`: out of
\* run() after the last update (line 593) or by line 587, else to the wait.
\* (Faulty variant: the return of line 593 is missing, and the loop goes on
\* after the last update.)
AfterUpdateMutNoReturn(updated) ==
    IF LoopReturns(updated, checkOnce) THEN "exited" ELSE "wait"
AfterUpdate(updated) ==
    IF final \/ LoopReturns(updated, checkOnce) THEN "exited" ELSE "wait"

\* The clock is read in two places, time.time() of line 582 and the file
\* system's stamp of a written file; dt is the time gone by since it was
\* last read.
Run(dt) ==
    /\ w_pc = "started"
    /\ now + dt <= MaxTime
    /\ now' = now + dt
    /\ startTime' = StartTimeOf(checkOnce, now + dt)
    /\ w_pc' = "check"
    /\ UNCHANGED <<file, published, treeVars, guardVars, checkOnce, stopFlag, final,
                   data, i, histVars>>

\* updateBoundingBox, lines 604-606: the test of the file's existence and age.
Check ==
    /\ w_pc = "check"
    /\ checks' = checks + 1
    /\ postStop' = IF stopFlag THEN postStop + 1 ELSE postStop
    /\ passed' = IF NotReady(file, startTime) THEN passed ELSE Stat(file)
    /\ skipped' = (skipped \/ (file.exists /\ NotReady(file, startTime)))
    /\ checkTree' = Tree
    /\ w_pc' = IF NotReady(file, startTime) THEN AfterUpdate(FALSE) ELSE "read"
    /\ UNCHANGED <<envVars, treeVars, guardVars, checkOnce, stopFlag, startTime, final, data, i,
                   calls, successes, entryTree, liveSeen, stopAt, stopAgain>>

\* Lines 607-611: open, read, strip, split, convert. A ValueError is not among
\* the exceptions run() catches (line 594): it ends the thread.
Read ==
    /\ w_pc = "read"
    /\ IF ParseRaises(file.lines)
       THEN /\ w_pc' = "died"
            /\ UNCHANGED <<data, i>>
       ELSE /\ data' = ParseData(file.lines)
            /\ i' = 0
            /\ w_pc' = "write"
    /\ UNCHANGED <<envVars, treeVars, guardVars, checkOnce, stopFlag, startTime, final,
                   calls, checks, successes, passed, skipped, entryTree, checkTree, liveSeen,
                   stopAt, postStop, stopAgain>>

\* Lines 612-615: one leaf of node.boundingBox is assigned data[i]; an
\* IndexError (data too short) ends the thread like a ValueError.
Write ==
    /\ w_pc = "write"
    /\ IF i + 1 > Len(data)
       THEN /\ w_pc' = "died"
            /\ UNCHANGED <<boundingBox, i>>
       ELSE /\ boundingBox' = [boundingBox EXCEPT ![i + 1] = data[i + 1]]
            /\ i' = i + 1
            /\ w_pc' = IF i + 1 = NFields THEN "setflag" ELSE "write"
    /\ UNCHANGED <<envVars, automaticBBoxValid, guardVars, checkOnce, stopFlag, startTime,
                   final, data, histVars>>

\* Lines 616-617: the flag, then return True.
SetFlag ==
    /\ w_pc = "setflag"
    /\ automaticBBoxValid' = TRUE
    /\ successes' = successes + 1
    /\ w_pc' = AfterUpdate(TRUE)
    /\ UNCHANGED <<envVars, boundingBox, guardVars, checkOnce, stopFlag, startTime, final,
                   data, i, calls, checks, passed, skipped, entryTree, checkTree, liveSeen,
                   stopAt, postStop, stopAgain>>

\* Line 588, wait() returning True.
WaitStop ==
    /\ w_pc = "wait"
    /\ WaitSeesStop(stopFlag)
    /\ w_pc' = "live"
    /\ UNCHANGED <<envVars, treeVars, guardVars, checkOnce, stopFlag, startTime, final,
                   data, i, histVars>>

\* Line 588, wait() returning False after the interval: back to line 585.
WaitTimeout ==
    /\ w_pc = "wait"
    /\ ~WaitSeesStop(stopFlag)
    /\ checks < MaxChecks
    /\ w_pc' = "check"
    /\ UNCHANGED <<envVars, treeVars, guardVars, checkOnce, stopFlag, startTime, final,
                   data, i, histVars>>

\* Line 591: the last update is made only when the parent process runs.
\* (Faulty variant: run() returns on the stop request without the update.)
LastUpdateRunsMutNever(r) == FALSE
\* (Faulty variant: the last update is made whatever is_running() answers.)
LastUpdateRunsMutAlways(r) == TRUE
LastUpdateRuns(r) == r = "running"

\* Lines 591-595: parentProc.is_running() answers True ("running"), False
\* ("gone") or raises psutil.NoSuchProcess ("nosuch"), which line 594 catches.

Liveness(r) ==
    /\ w_pc = "live"
    /\ liveSeen' = r
    /\ IF LastUpdateRuns(r)
       THEN /\ final' = TRUE
            /\ w_pc' = "check"
       ELSE /\ final' = final
            /\ w_pc' = "exited"
    /\ UNCHANGED <<envVars, treeVars, guardVars, checkOnce, stopFlag, startTime,
                   data, i, calls, checks, successes, passed, skipped, entryTree, checkTree,
                   stopAt, postStop, stopAgain>>

\* ------------------------------------------------------- the environment
\* A file the watcher would take: it parses and has the nine values.
Complete(ls) == ~ParseRaises(ls) /\ Len(Tokens(ls)) >= NFields

\* The external process, started by the wrapped operation, writes the file,
\* as often as it likes; after a complete file it writes no more.
WriteArtifact(c, dt) ==
    /\ g_pc = "body"
    /\ ~published
    /\ now + dt <= MaxTime
    /\ now' = now + dt
    /\ file' = [exists |-> TRUE, mtime |-> now + dt, lines |-> c]
    /\ published' = Complete(c)
    /\ UNCHANGED <<treeVars, guardVars, threadVars, histVars>>

GuardStep ==
    \/ \E ub \in BOOLEAN, co \in BOOLEAN : Enter(ub, co)
    \/ Start
    \/ \E o \in {"ok", "fail", "cancel"} : BodyEnd(o)
    \/ StopRequest
    \/ StopRequestAgain
    \/ Join
    \/ NoTeardown

WatcherStep ==
    \/ \E dt \in 0..1 : Run(dt)
    \/ Check
    \/ Read
    \/ Write
    \/ SetFlag
    \/ WaitStop
    \/ WaitTimeout
    \/ \E r \in {"running", "gone", "nosuch"} : Liveness(r)

EnvStep == \E c \in Contents, dt \in 0..1 : WriteArtifact(c, dt)

Next == GuardStep \/ WatcherStep \/ EnvStep

Spec == Init /\ [][Next]_vars

\* The threads are scheduled: the watcher thread takes its next step, and the
\* main thread returns from join() once the watcher has ended.
FairSpec == Spec /\ WF_vars(WatcherStep) /\ WF_vars(Join)

\* ------------------------------------------------------------- claims
\* The watcher is somewhere between the age test and the flag.
Applying == {"read", "write", "setflag"}

\* The file holds exactly the nine float literals.
ValidNine(ls) == ~ParseRaises(ls) /\ Len(Tokens(ls)) = NFields

\* C1: when the guard has made a watcher, then on every exit path of the
\* wrapped operation (return, failure, cancellation) the guard has called
\* stopRequest() and then join() on it, and join() has waited for the
\* thread's end, before control is back with the guard's caller.
C1_TeardownOnEveryExit ==
    (g_pc = "done" /\ w_pc # "none") =>
        /\ calls = <<"start", "stopRequest", "join">>
        /\ stopFlag
        /\ w_pc \in Terminated

\* C1 witness: the wrapped operation was cancelled and the watcher torn down.
C1_Witness ==
    /\ g_pc = "done"
    /\ outcome = "cancel"
    /\ calls = <<"start", "stopRequest", "join">>

\* C2: a valid nine-value file written at or after the watcher's baseline is
\* in the tree, with the flag true, when join() has returned. Stated here for
\* a continuous watcher whose liveness check did not report the process gone.
C2_ValidArtifactApplied ==
    ( /\ g_pc = "done"
      /\ w_pc # "none"
      /\ ~checkOnce
      /\ liveSeen \in {"none", "running"}
      /\ file.exists
      /\ ValidNine(file.lines)
      /\ file.mtime >= startTime ) =>
        /\ automaticBBoxValid
        /\ boundingBox = ParseData(file.lines)

\* C3: whenever the flag is true, the nine leaves hold the values of one
\* complete file, and not a mix of an older one and a newer one.
C3_FlagImpliesCompleteFields ==
    automaticBBoxValid =>
        \E c \in Contents :
            Complete(c) /\ boundingBox = SubSeq(ParseData(c), 1, NFields)

\* C4: a watcher's updateBoundingBox succeeds at most once, and after the
\* success the watcher has left run(): no further check, no further write.
C4_WriteOnce ==
    /\ successes <= 1
    /\ successes = 1 => w_pc = "exited"

\* C4 witness: the success came in the last update, after a stop request and
\* an earlier check that failed.
C4_Witness ==
    /\ successes = 1
    /\ final
    /\ checks = 2
    /\ w_pc = "exited"

\* C5: once the guard has called stopRequest() on its started watcher, the
\* watcher's run() ends and join() returns, with or without a file, and
\* also when run() had ended before the call.
C5_StopLeadsToJoin ==
    (g_pc = "join") ~> (g_pc = "done" /\ w_pc \in Terminated)

\* C5 witness: join() has returned for a continuous watcher that never saw a
\* file and left its loop only because of the stop request.
C5_Witness ==
    /\ g_pc = "done"
    /\ calls = <<"start", "stopRequest", "join">>
    /\ ~checkOnce
    /\ ~file.exists
    /\ liveSeen = "running"
    /\ w_pc = "exited"

\* C6: a continuous watcher goes on to read and apply the file only when the
\* check saw it with a modification time at or after the baseline.
C6_NoStaleApply ==
    (~checkOnce /\ (w_pc \in Applying \/ successes > 0)) =>
        /\ passed.exists
        /\ passed.mtime >= startTime

\* C6 witness: the first check saw a file older than the baseline and left
\* it alone; a later check saw one whose time equals the baseline and
\* applied it.
C6_Witness ==
    /\ ~checkOnce
    /\ skipped
    /\ checks = 2
    /\ passed.mtime = startTime
    /\ successes = 1

C8_ManualBoxUntouched ==
    (useBoundingBox /\ g_pc # "idle") =>
        /\ w_pc = "none"
        /\ calls = <<>>
        /\ Tree = entryTree

\* C8 witness: a guarded execution with useBoundingBox true has ended while
\* a complete file, written during it, is on disk.
C8_Witness ==
    /\ useBoundingBox
    /\ g_pc = "done"
    /\ file.exists
    /\ file.mtime >= 1
    /\ published

\* C9: the guard hands its caller the wrapped operation's outcome, whatever
\* became of the watcher.
C9_OutcomePreserved ==
    g_pc = "done" => result = outcome

\* C9 witness: the wrapped operation returned normally although the watcher
\* thread was ended by a malformed file.
C9_Witness ==
    /\ g_pc = "done"
    /\ w_pc = "died"
    /\ outcome = "ok"
    /\ result = "ok"

\* C10: a check that reads a malformed file (too few tokens, or a token that
\* is no number) leaves the nine leaves and the flag as they were when the
\* check began.
C10_MalformedLeavesTree ==
    w_pc = "died" => Tree = checkTree


\* C11: a file whose token count is not nine, fewer or more, or that holds a
\* token that is no float literal, fails to parse: its check neither sets the
\* flag nor counts as a success. A check that succeeded read exactly nine
\* values; a check ended by an exception left the flag as it found it.
C11_OnlyNineTokensSucceed ==
    /\ successes > 0 => Len(data) = NFields
    /\ w_pc = "died" => (successes = 0 /\ automaticBBoxValid = checkTree.valid)

\* C12: run() never ends by an exception: a malformed file is caught and kept
\* as a last error that can be read after join().
C12_NoExceptionEscapesRun == w_pc # "died"

\* C13: when stopRequest() lands while the loop is blocked in its wait, with
\* nothing applied yet, and the parent process is alive, exactly one more
\* check is made before run() ends; a valid file that is not stale at that
\* check is applied: the nine leaves hold its values and the flag is true.
C13_OneLastCheckAfterWait ==
    (stopAt = "wait" /\ liveSeen = "running") =>
        /\ postStop <= 1
        /\ w_pc \in Terminated =>
              /\ postStop = 1
              /\ (ValidNine(file.lines) /\ ~NotReady(file, startTime)) =>
                    /\ w_pc = "exited"
                    /\ successes = 1
                    /\ automaticBBoxValid
                    /\ boundingBox = ParseData(file.lines)

\* C13, the case: the stop came during the wait that followed a failed poll,
\* the file came during that wait, and the last check applied it.
C13_Witness ==
    /\ stopAt = "wait" /\ liveSeen = "running"
    /\ w_pc = "exited"
    /\ checks = 2 /\ postStop = 1
    /\ successes = 1
    /\ ValidNine(file.lines)
    /\ boundingBox = ParseData(file.lines)

\* C14, as claimed: once stopRequest() has been called, at most one more
\* check begins before the loop ends, wherever in the loop the call landed.
C14_AtMostOneCheckAfterStop == postStop <= 1

\* C14, as the code has it: once stopRequest() has been called, at most two
\* more checks begin, and the second of them is the last update of line 592;
\* two begin only when the call landed before the check of the iteration under
\* way had begun. When the call landed while a check was reading or assigning,
\* during the wait, or after run() had ended, at most one more check begins.
C14_ChecksAfterStop ==
    /\ postStop <= 2
    /\ postStop = 2 => (final /\ stopAt = "early")
    /\ postStop >= 1 => stopFlag

\* C14, the case: the stop came before a check of the loop had begun; that
\* check found nothing, the wait returned at once, and the last update ran.
C14_Witness ==
    /\ stopAt = "early"
    /\ postStop = 2 /\ final
    /\ w_pc = "exited"
    /\ liveSeen = "running"

\* C15: stopRequest() called a second time, right after the first or once the
\* watcher has ended, raises nothing, leaves the stop flag set, and brings no
\* second last update: the checks begun under the flag stay within what one
\* request allows.
C15_SecondStopChangesNothing ==
    stopAgain =>
        /\ stopFlag
        /\ postStop <= (IF stopAt = "early" THEN 2 ELSE 1)
        /\ (final /\ w_pc # "check") => w_pc \in Applying \cup Terminated

\* C15, the case: the second request came before the last update began.
C15_Witness ==
    /\ stopAgain
    /\ final /\ w_pc = "check"
    /\ postStop = 0

\* C16: in continuous mode with no stop requested, a valid file with
\* mtime >= the baseline that comes after polls have failed is applied by the
\* next poll, which sets the flag, and the loop ends by itself: a poll that
\* found the file ready is never followed by another wait, and after the
\* success run() has ended with the leaves holding the file's values.
C16_LatePollAppliesAndExits ==
    (~checkOnce /\ ~stopFlag) =>
        /\ w_pc = "wait" => (~passed.exists /\ successes = 0)
        /\ successes = 1 =>
              /\ w_pc = "exited"
              /\ automaticBBoxValid
              /\ boundingBox = SubSeq(data, 1, NFields)
              /\ passed.mtime >= startTime

\* C16, the case: the first poll failed, the file came during the wait, the
\* second poll applied it, and run() ended with no stop requested.
C16_Witness ==
    /\ ~checkOnce /\ ~stopFlag /\ g_pc = "body"
    /\ checks = 2 /\ skipped = FALSE
    /\ successes = 1
    /\ w_pc = "exited"
    /\ automaticBBoxValid
    /\ ValidNine(file.lines) /\ boundingBox = ParseData(file.lines)

\* C17: a continuous watcher runs until the file has been parsed and applied,
\* or until a stop has been requested and the last check made: whenever run()
\* has ended, one of the two is the case. (The exit on a parent process that
\* is gone, which skips the last check by line 591, is left aside.)
C17_EndsByApplyOrLastCheck ==
    (~checkOnce /\ w_pc \in Terminated /\ liveSeen \notin {"gone", "nosuch"}) =>
        \/ successes = 1
        \/ stopFlag /\ final /\ postStop >= 1

\* C18: when no check of the watcher succeeds because the file is never
\* written, then at the guard's exit the nine leaves hold what they held when
\* the guard was entered, and the flag is false.
C18_NoArtifactLeavesDefaults ==
    (g_pc = "done" /\ w_pc \in Terminated /\ successes = 0 /\ file \in {NoFile, OldFile}) =>
        /\ boundingBox = entryTree.bb
        /\ ~automaticBBoxValid

\* C19: the docstring of boundingBoxMonitor. With checkOnce true the file is
\* checked again and again until it is created, and a file that was there
\* already is ignored; with checkOnce false the file is checked once, and a
\* file that was there already is not ignored.
C19_CheckOnceAsDocumented ==
    /\ checkOnce =>
          /\ passed # Stat(OldFile)
          /\ (w_pc = "exited" /\ ~stopFlag) => successes = 1
    /\ ~checkOnce =>
          /\ checks <= 1
          /\ ~skipped

\* C20: a watcher that was created has had start() called on it before the
\* wrapped operation begins: from the yield on, the thread is started and
\* start is the first call the guard made.
C20_StartBeforeBody ==
    (w_pc # "none" /\ g_pc \in {"body", "finally", "join", "done"}) =>
        /\ w_pc # "created"
        /\ Len(calls) >= 1 /\ calls[1] = "start"

\* C20, the case: the wrapped operation has begun with the thread started and
\* run() not yet under way.
C20_Witness ==
    /\ g_pc = "body"
    /\ w_pc = "started"
    /\ calls = <<"start">>
    /\ checks = 0

\* C21: the baseline is taken when the watcher is created, before the wrapped
\* operation can begin, and does not change; so a file the wrapped operation
\* writes after the guard has yielded has mtime >= the baseline and is not
\* held to be stale.
C21_BodyFileNeverStale ==
    (~checkOnce /\ published /\ startTime # -2) => ~NotReady(file, startTime)

\* C22, as claimed: the guard has the node's main operation read the tree
\* only after the teardown (stopRequest and join) is over: while the main
\* operation runs, and so may read, the watcher can no longer write.
C22_MainOperationAfterTeardown ==
    g_pc = "body" => (w_pc = "none" \/ w_pc \in Terminated)

\* C22, as the code has it: the main operation is the body of the with
\* statement, so it runs wholly before the teardown, with neither stopRequest
\* nor join called yet, and a watcher that lives may write the tree under it.
\* Only what runs once the guard is done reads after the teardown: then both
\* calls have been made and the watcher has ended.
C22_TeardownAfterMainOperation ==
    /\ g_pc = "body" =>
          /\ ~stopFlag
          /\ outcome = "none"
          /\ \A k \in 1..Len(calls) : calls[k] \notin {"stopRequest", "join"}
    /\ (g_pc = "done" /\ w_pc # "none") =>
          /\ outcome # "none"
          /\ w_pc \in Terminated
          /\ \E k \in 1..Len(calls) : calls[k] = "join"

\* C22, the case: the main operation is under way while the watcher is
\* assigning leaves.
C22_Witness ==
    /\ g_pc = "body"
    /\ w_pc = "write" /\ i \in 1..(NFields - 1)
    /\ boundingBox # entryTree.bb

\* C23: join() does not return before run() has ended: whenever the guard
\* gets to be done with a watcher, the watcher has ended, and as long as the
\* guard stays done no leaf and no flag is written.
C23_NoWriteAfterJoin ==
    [][ /\ (g_pc' = "done" /\ w_pc' # "none") => w_pc' \in Terminated
        /\ (g_pc = "done" /\ g_pc' = "done") => Tree' = Tree ]_vars

\* C23, the case: the stop came while the watcher was assigning leaves; join
\* waited, and the guard is done with the file applied.
C23_Witness ==
    /\ g_pc = "done"
    /\ stopAt = "checking"
    /\ w_pc = "exited"
    /\ successes = 1
    /\ automaticBBoxValid

\* C24: when, after the stop has been seen, is_running() answers that the
\* parent process is gone, or raises NoSuchProcess, run() ends at once and in
\* the normal way, with no last read, and the tree and the flag are what they
\* were at the failed check before the wait; is_running() is asked only after
\* a stop has been seen, never in the course of polling.
C24_ProcessGoneSkipsLastUpdate ==
    /\ liveSeen \in {"gone", "nosuch"} =>
          /\ w_pc = "exited"
          /\ ~final
          /\ stopAt = "wait" => postStop = 0
          /\ Tree = checkTree
          /\ successes = 0
    /\ (liveSeen # "none" \/ w_pc = "live") => stopFlag

\* C24, the case: the parent process was gone at the stop, and run() ended
\* with a fresh nine-value file on disk unread.
C24_Witness ==
    /\ liveSeen \in {"gone", "nosuch"}
    /\ w_pc = "exited"
    /\ ValidNine(file.lines) /\ ~NotReady(file, startTime)
    /\ boundingBox # ParseData(file.lines)
    /\ ~automaticBBoxValid

\* C25: the flag only ever goes from false to true: no step of the watcher or
\* of the guard clears it, so once true on a node it stays true through
\* every later check and every later guarded execution, also while a later
\* watcher is assigning the leaves.
C25_FlagMonotonic == [][automaticBBoxValid => automaticBBoxValid']_vars

\* C25, the case: a second guarded execution whose watcher has assigned some
\* of the leaves, with the flag true from the first.
C25_Witness ==
    /\ runs = 2
    /\ entryTree.valid /\ automaticBBoxValid
    /\ successes = 0
    /\ w_pc = "write" /\ i \in 1..(NFields - 1)
    /\ boundingBox # entryTree.bb

=============================================================================
